---------------------------- MODULE Spec2Model ----------------------------
(***************************************************************************)
(* A model of pygwan's WhatsApp client (src/pygwan/__init__.py).           *)
(*                                                                         *)
(* The client object holds a fixed configuration (self).  Every send       *)
(* operation builds a JSON payload, POSTs it through the transport         *)
(* (requests.post) and returns; the webhook accessors read a webhook       *)
(* event.  Python dictionaries are TLA+ records, Python strings that are   *)
(* sliced (message bodies) are sequences of character codes, other         *)
(* strings are TLA+ strings.  The transport is modelled as returning an    *)
(* HTTP status code together with a JSON body (possibly the empty          *)
(* object); transport exceptions and bodies that are not JSON are outside  *)
(* the model.                                                              *)
(*                                                                         *)
(* The two text operations (send_message, reply_to_message) are modelled   *)
(* step by step, one step per blocking requests.post call, so that the     *)
(* order of the chunk POSTs is visible; every other operation is one       *)
(* atomic action whose input includes the transport's response.            *)
(*                                                                         *)
(* The caller may pass the webhook event object it holds to one accessor   *)
(* after another; event is that object as the last accessor left it, and   *)
(* the history variable observed remembers an earlier accessor call on it. *)
(***************************************************************************)
EXTENDS Integers, Sequences, FiniteSets, TLC

VARIABLES
    self,       \* the client's attributes set by __init__
    call,       \* the operation being executed (or last executed) and its arguments
    pc,         \* position of the caller's thread inside the operation
    messages,   \* send_message / reply_to_message: the list of chunks
    k,          \* index (1-based) of the chunk of the current loop iteration
    posts,      \* the POSTs issued by the current call, in issue order
    responses,  \* the responses the transport returned to the current call
    r,          \* the local variable r / response: the last response received
    warned,     \* the warnings emitted by the current call
    result,     \* how the call ended: nothing yet, a returned value, a raised exception
    event,      \* the webhook event (a dict) the caller holds, as the last accessor left it
    observed    \* history: an earlier accessor call on that event, with what it returned

vars == <<self, call, pc, messages, k, posts, responses, r, warned, result, event, observed>>

-----------------------------------------------------------------------------
(* Bounds of the model *)

\* Message bodies are at most MaxChunks * 4096 + 1 characters long.
MaxChunks == 2

\* Template variable lists and list-message button lists hold at most MaxVars entries.
MaxVars == 2

-----------------------------------------------------------------------------
(* Program constants *)

\* The chunk size of send_message and reply_to_message.
ChunkSize == 4096

\* request_location raises when len(message) >= LocationLimit.
LocationLimit == 1025

-----------------------------------------------------------------------------
(* Python values *)

None == [none |-> TRUE]

PyStr(s) == [str |-> s]

PyInt(i) == [int |-> i]

PyBool(b) == [bool |-> b]

\* The outcome of a call.
NoResult == [kind |-> "none"]

Return(v) == [kind |-> "return", value |-> v]

Raise(e) == [kind |-> "raise", exc |-> e]

\* A string that gets sliced or measured: the sequence of its characters.
\* Text(n, s) is a body of n characters whose content depends on the position
\* and on the slice the position falls in, so that slices differ.
Text(n, s) == [i \in 1..n |-> (s * i + (i - 1) \div ChunkSize) % 5]

Min(a, b) == IF a < b THEN a ELSE b

\* message[a : b] for 0 <= a <= b.
Slice(s, a, b) == SubSeq(s, a + 1, Min(b, Len(s)))

\* list(range(start, stop, step)) for step > 0.
Range(start, stop, step) ==
    IF stop <= start THEN <<>>
    ELSE [n \in 1..((stop - start + step - 1) \div step) |-> start + (n - 1) * step]

\* Chunks with slices one character short: message[i : i + 4095].
Chunks_short_slices(message) ==
    LET starts == Range(0, Len(message), ChunkSize)
    IN  [n \in DOMAIN starts |-> Slice(message, starts[n], starts[n] + ChunkSize - 1)]

\* Chunks with the list of slices in reverse order.
Chunks_reversed(message) ==
    LET starts == Range(0, Len(message), ChunkSize)
        last   == Len(starts)
    IN  [n \in DOMAIN starts |->
            Slice(message, starts[last + 1 - n], starts[last + 1 - n] + ChunkSize)]

\* [message[i : i + 4096] for i in range(0, len(message), 4096)]
Chunks(message) ==
    LET starts == Range(0, Len(message), ChunkSize)
    IN  [n \in DOMAIN starts |-> Slice(message, starts[n], starts[n] + ChunkSize)]

\* "".join(bodies)
RECURSIVE Concat(_)
Concat(ss) == IF ss = <<>> THEN <<>> ELSE Head(ss) \o Concat(Tail(ss))

\* ceil(n / d) for d > 0.
CeilDiv(n, d) == (n + d - 1) \div d

-----------------------------------------------------------------------------
(* Inputs *)

Tokens == {"EAAG-token-1", "EAAG-token-2"}

PhoneNumberIds == {"106540352242922"}

RecipientIds == {"263771234567"}

MessageIds == {"wamid.A"}

Lengths ==
    {0, 1} \cup {c * ChunkSize + d : c \in 1..MaxChunks, d \in {-1, 0, 1}}

Seeds == {1, 2}

Bodies == {Text(n, s) : n \in Lengths, s \in Seeds}

\* JSON bodies of HTTP responses.
EmptyJson == [key \in {} |-> ""]

ProviderJson == [messaging_product |-> "whatsapp"]

ErrorJson == [error |-> "(#131030) Recipient phone number not in allowed list"]

\* What the transport can answer to a POST.
Responses ==
    { [status_code |-> 200, json |-> ProviderJson],
      [status_code |-> 200, json |-> EmptyJson],
      [status_code |-> 400, json |-> ErrorJson],
      [status_code |-> 500, json |-> EmptyJson] }

NoResponse == [status_code |-> 0, json |-> EmptyJson]

-----------------------------------------------------------------------------
(* The client object *)

\* WhatsApp.__init__
WhatsApp_init(token, phone_number_id) ==
    LET base_url == "https://graph.facebook.com/v18.0"
    IN  [ token           |-> token,
          phone_number_id |-> phone_number_id,
          base_url        |-> base_url,
          v15_base_url    |-> "https://graph.facebook.com/v18.0",
          url             |-> base_url \o "/" \o phone_number_id \o "/messages",
          headers         |-> [ Content_Type  |-> "application/json",
                                Authorization |-> "Bearer " \o token ] ]

NoCall == [op |-> "none"]

Init ==
    /\ \E token \in Tokens, phone_number_id \in PhoneNumberIds :
          self = WhatsApp_init(token, phone_number_id)
    /\ call = NoCall
    /\ pc = "idle"
    /\ messages = <<>>
    /\ k = 0
    /\ posts = <<>>
    /\ responses = <<>>
    /\ r = NoResponse
    /\ warned = <<>>
    /\ result = NoResult
    /\ event = None
    /\ observed = None

\* The caller's thread is not inside an operation.
Ready == pc = "idle"

\* The call has returned or raised; the caller takes the outcome and goes on.
\* The call's locals and the record of its POSTs are dropped, and so is the
\* webhook event the caller was reading.
caller_continues ==
    /\ pc = "done"
    /\ pc' = "idle"
    /\ call' = NoCall
    /\ messages' = <<>>
    /\ k' = 0
    /\ posts' = <<>>
    /\ responses' = <<>>
    /\ r' = NoResponse
    /\ warned' = <<>>
    /\ result' = NoResult
    /\ event' = None
    /\ observed' = None
    /\ UNCHANGED self

\* requests.post(url, headers=headers, json=data): the request leaves.
Request(url, headers, data) == [url |-> url, headers |-> headers, json |-> data]

-----------------------------------------------------------------------------
(* send_message *)

\* send_message_data with the body cut to 4095 characters.
send_message_data_cut(body, recipient_id, recipient_type, preview_url) ==
    [ messaging_product |-> "whatsapp",
      recipient_type    |-> recipient_type,
      to                |-> recipient_id,
      type              |-> "text",
      text              |-> [ preview_url |-> preview_url,
                              body |-> Slice(body, 0, ChunkSize - 1) ] ]

\* The payload of one text message (lines 68-74 and 85-91).
send_message_data(body, recipient_id, recipient_type, preview_url) ==
    [ messaging_product |-> "whatsapp",
      recipient_type    |-> recipient_type,
      to                |-> recipient_id,
      type              |-> "text",
      text              |-> [preview_url |-> preview_url, body |-> body] ]

\* Entry of send_message up to its first requests.post.
send_message(message, recipient_id, recipient_type, preview_url) ==
    /\ Ready
    /\ call' = [ op |-> "send_message", message |-> message,
                 recipient_id |-> recipient_id, recipient_type |-> recipient_type,
                 preview_url |-> preview_url ]
    /\ IF Len(message) > ChunkSize
       THEN /\ messages' = Chunks(message)
            /\ k' = 1
            /\ posts' = << Request(self.url, self.headers,
                              send_message_data(messages'[1], recipient_id,
                                                recipient_type, preview_url)) >>
            /\ pc' = "L76_post"
       ELSE /\ messages' = <<>>
            /\ k' = 0
            /\ posts' = << Request(self.url, self.headers,
                              send_message_data(message, recipient_id,
                                                recipient_type, preview_url)) >>
            /\ pc' = "L93_post"
    /\ responses' = <<>>
    /\ r' = NoResponse
    /\ warned' = <<>>
    /\ result' = NoResult
    /\ UNCHANGED <<self, event, observed>>

\* send_message_resume with a loop that gives up at the first response whose
\* status is not 200 and returns its body.
send_message_resume_stops_on_error ==
    /\ call.op = "send_message"
    /\ \/ /\ pc = "L77"
          /\ IF k < Len(messages) /\ r.status_code = 200
             THEN /\ k' = k + 1
                  /\ posts' = Append(posts,
                         Request(self.url, self.headers,
                             send_message_data(messages[k + 1], call.recipient_id,
                                 call.recipient_type, call.preview_url)))
                  /\ pc' = "L76_post"
                  /\ UNCHANGED result
             ELSE /\ result' = Return(r.json)
                  /\ pc' = "done"
                  /\ UNCHANGED <<k, posts>>
       \/ /\ pc = "L94"
          /\ result' = Return(r.json)
          /\ pc' = "done"
          /\ UNCHANGED <<k, posts>>
    /\ UNCHANGED <<self, call, messages, responses, r, warned, event, observed>>

\* send_message after a requests.post returned: the status check, then the
\* next loop iteration's POST, or the return of r.json() (line 96).
send_message_resume ==
    /\ call.op = "send_message"
    /\ \/ /\ pc = "L77"
          /\ IF k < Len(messages)
             THEN /\ k' = k + 1
                  /\ posts' = Append(posts,
                         Request(self.url, self.headers,
                             send_message_data(messages[k + 1], call.recipient_id,
                                 call.recipient_type, call.preview_url)))
                  /\ pc' = "L76_post"
                  /\ UNCHANGED result
             ELSE /\ result' = Return(r.json)
                  /\ pc' = "done"
                  /\ UNCHANGED <<k, posts>>
       \/ /\ pc = "L94"
          /\ result' = Return(r.json)
          /\ pc' = "done"
          /\ UNCHANGED <<k, posts>>
    /\ UNCHANGED <<self, call, messages, responses, r, warned, event, observed>>

-----------------------------------------------------------------------------
(* reply_to_message *)

\* reply_to_message_data with the recipient where the message id belongs.
reply_to_message_data_wrong_context(message_id, recipient_id, body, preview_url) ==
    [ messaging_product |-> "whatsapp",
      recipient_type    |-> "individual",
      to                |-> recipient_id,
      type              |-> "text",
      context           |-> [message_id |-> recipient_id],
      text              |-> [preview_url |-> preview_url, body |-> body] ]

\* The payload of one reply (lines 115-122 and 134-141).
reply_to_message_data(message_id, recipient_id, body, preview_url) ==
    [ messaging_product |-> "whatsapp",
      recipient_type    |-> "individual",
      to                |-> recipient_id,
      type              |-> "text",
      context           |-> [message_id |-> message_id],
      text              |-> [preview_url |-> preview_url, body |-> body] ]

\* Entry of reply_to_message up to its first requests.post.
reply_to_message(message_id, recipient_id, message, preview_url) ==
    /\ Ready
    /\ call' = [ op |-> "reply_to_message", message_id |-> message_id,
                 recipient_id |-> recipient_id, message |-> message,
                 preview_url |-> preview_url ]
    /\ IF Len(message) > ChunkSize
       THEN /\ messages' = Chunks(message)
            /\ k' = 1
            /\ posts' = << Request(self.url, self.headers,
                              reply_to_message_data(message_id, recipient_id,
                                                    messages'[1], preview_url)) >>
            /\ pc' = "L124_post"
       ELSE /\ messages' = <<>>
            /\ k' = 0
            /\ posts' = << Request(self.url, self.headers,
                              reply_to_message_data(message_id, recipient_id,
                                                    message, preview_url)) >>
            /\ pc' = "L144_post"
    /\ responses' = <<>>
    /\ r' = NoResponse
    /\ warned' = <<>>
    /\ result' = NoResult
    /\ UNCHANGED <<self, event, observed>>

\* reply_to_message after a requests.post returned: the status check, then
\* the next loop iteration's POST, or the return of r.json() (line 148).
reply_to_message_resume ==
    /\ call.op = "reply_to_message"
    /\ \/ /\ pc = "L125"
          /\ IF k < Len(messages)
             THEN /\ k' = k + 1
                  /\ posts' = Append(posts,
                         Request(self.url, self.headers,
                             reply_to_message_data(call.message_id, call.recipient_id,
                                 messages[k + 1], call.preview_url)))
                  /\ pc' = "L124_post"
                  /\ UNCHANGED result
             ELSE /\ result' = Return(r.json)
                  /\ pc' = "done"
                  /\ UNCHANGED <<k, posts>>
       \/ /\ pc = "L145"
          /\ result' = Return(r.json)
          /\ pc' = "done"
          /\ UNCHANGED <<k, posts>>
    /\ UNCHANGED <<self, call, messages, responses, r, warned, event, observed>>

-----------------------------------------------------------------------------
(* The transport *)

\* The position a blocked requests.post returns to.
AfterPost(p) ==
    CASE p = "L76_post"  -> "L77"
      [] p = "L93_post"  -> "L94"
      [] p = "L124_post" -> "L125"
      [] p = "L144_post" -> "L145"

\* requests_post_returns with r bound by the first response only.
requests_post_returns_first(resp) ==
    /\ pc \in {"L76_post", "L93_post", "L124_post", "L144_post"}
    /\ r' = IF responses = <<>> THEN resp ELSE r
    /\ responses' = Append(responses, resp)
    /\ pc' = AfterPost(pc)
    /\ UNCHANGED <<self, call, messages, k, posts, warned, result, event, observed>>

\* requests.post returns: the transport answers the POST in flight.
requests_post_returns(resp) ==
    /\ pc \in {"L76_post", "L93_post", "L124_post", "L144_post"}
    /\ r' = resp
    /\ responses' = Append(responses, resp)
    /\ pc' = AfterPost(pc)
    /\ UNCHANGED <<self, call, messages, k, posts, warned, result, event, observed>>

-----------------------------------------------------------------------------
(* Operations that issue one POST *)

\* An operation that runs from entry to exit in one step: it issued the
\* requests ps, got the responses rs, emitted the warnings ws and ended with res.
Finish(c, ps, rs, ws, res) ==
    /\ call' = c
    /\ posts' = ps
    /\ responses' = rs
    /\ r' = IF rs = <<>> THEN NoResponse ELSE rs[Len(rs)]
    /\ warned' = ws
    /\ result' = res
    /\ pc' = "done"
    /\ messages' = <<>>
    /\ k' = 0
    /\ UNCHANGED <<self, event, observed>>

\* The usual tail of a send: "if r.status_code == 200: ... return r.json()",
\* then the logging of the failure and again "return r.json()".
return_json(resp) ==
    IF resp.status_code = 200 THEN Return(resp.json) ELSE Return(resp.json)

(* send_reaction *)

\* send_reaction_data with the type of a text message.
send_reaction_data_as_text(message_id, reaction, recipient_id) ==
    [ messaging_product |-> "whatsapp",
      recipient_type    |-> "individual",
      to                |-> recipient_id,
      type              |-> "text",
      reaction          |-> [message_id |-> message_id, emoji |-> reaction] ]

send_reaction_data(message_id, reaction, recipient_id) ==
    [ messaging_product |-> "whatsapp",
      recipient_type    |-> "individual",
      to                |-> recipient_id,
      type              |-> "reaction",
      reaction          |-> [message_id |-> message_id, emoji |-> reaction] ]

send_reaction(message_id, reaction, recipient_id, resp) ==
    /\ Ready
    /\ Finish([op |-> "send_reaction", message_id |-> message_id,
               reaction |-> reaction, recipient_id |-> recipient_id],
              << Request(self.url, self.headers,
                         send_reaction_data(message_id, reaction, recipient_id)) >>,
              <<resp>>, <<>>, return_json(resp))

(* send_template *)

\* An argument the caller left out.
Omitted == "(omitted)"

\* The value of a parameter with a default.
Default(arg, dflt) == IF arg = Omitted THEN dflt ELSE arg

\* The defaults of the lang parameters (lines 179, 219, 255).
send_template_lang == "en_US"

send_payload_template_lang == "en"

send_payload_template_with_header_lang == "en_GB"

send_template_data(template, recipient_id, components, lang) ==
    [ messaging_product |-> "whatsapp",
      to                |-> recipient_id,
      type              |-> "template",
      template          |-> [ name       |-> template,
                              language   |-> [code |-> lang],
                              components |-> components ] ]

send_template(template, recipient_id, components, lang, resp) ==
    /\ Ready
    /\ Finish([op |-> "send_template", template |-> template,
               recipient_id |-> recipient_id, components |-> components, lang |-> lang],
              << Request(self.url, self.headers,
                         send_template_data(template, recipient_id, components,
                                            Default(lang, send_template_lang))) >>,
              <<resp>>, <<>>, return_json(resp))

(* send_payload_template, send_payload_template_with_header *)

Digit(d) ==
    CASE d = 0 -> "0" [] d = 1 -> "1" [] d = 2 -> "2" [] d = 3 -> "3" [] d = 4 -> "4"
      [] d = 5 -> "5" [] d = 6 -> "6" [] d = 7 -> "7" [] d = 8 -> "8" [] d = 9 -> "9"

RECURSIVE NatStr(_)
NatStr(n) == IF n < 10 THEN Digit(n) ELSE NatStr(n \div 10) \o Digit(n % 10)

\* str(variable) of a str or an int.
str(v) ==
    IF "str" \in DOMAIN v THEN v.str
    ELSE IF v.int < 0 THEN "-" \o NatStr(0 - v.int) ELSE NatStr(v.int)

\* [{"type": "text", "text": str(variable)} for variable in variables]
text_parameters(variables) ==
    [n \in DOMAIN variables |-> [type |-> "text", text |-> str(variables[n])]]

send_payload_template_data(template_name, recipient_id, variables, lang) ==
    [ messaging_product |-> "whatsapp",
      to                |-> recipient_id,
      type              |-> "template",
      template          |-> [ name       |-> template_name,
                              language   |-> [code |-> lang],
                              components |->
                                  << [ type       |-> "body",
                                       parameters |-> text_parameters(variables) ] >> ] ]

\* Lines 249-253: the response object itself is returned.
send_payload_template_return(resp) ==
    IF resp.status_code = 200 THEN Return(resp) ELSE Return(resp)

send_payload_template(template_name, recipient_id, variables, lang, resp) ==
    /\ Ready
    /\ Finish([op |-> "send_payload_template", template_name |-> template_name,
               recipient_id |-> recipient_id, variables |-> variables, lang |-> lang],
              << Request(self.url, self.headers,
                         send_payload_template_data(template_name, recipient_id, variables,
                             Default(lang, send_payload_template_lang))) >>,
              <<resp>>, <<>>, send_payload_template_return(resp))

\* send_payload_template_with_header_data with the body component first.
send_payload_template_with_header_data_body_first(template_name, recipient_id, header_variables, body_variables, lang) ==
    [ messaging_product |-> "whatsapp",
      to                |-> recipient_id,
      type              |-> "template",
      template          |-> [ name       |-> template_name,
                              language   |-> [code |-> lang],
                              components |->
                                  << [ type       |-> "body",
                                       parameters |-> text_parameters(body_variables) ],
                                     [ type       |-> "header",
                                       parameters |-> text_parameters(header_variables) ] >> ] ]

send_payload_template_with_header_data(template_name, recipient_id, header_variables, body_variables, lang) ==
    [ messaging_product |-> "whatsapp",
      to                |-> recipient_id,
      type              |-> "template",
      template          |-> [ name       |-> template_name,
                              language   |-> [code |-> lang],
                              components |->
                                  << [ type       |-> "header",
                                       parameters |-> text_parameters(header_variables) ],
                                     [ type       |-> "body",
                                       parameters |-> text_parameters(body_variables) ] >> ] ]

\* Lines 289-293: the response object itself is returned.
send_payload_template_with_header_return(resp) ==
    IF resp.status_code = 200 THEN Return(resp) ELSE Return(resp)

send_payload_template_with_header(template_name, recipient_id, header_variables, body_variables, lang, resp) ==
    /\ Ready
    /\ Finish([op |-> "send_payload_template_with_header",
               template_name |-> template_name, recipient_id |-> recipient_id,
               header_variables |-> header_variables, body_variables |-> body_variables,
               lang |-> lang],
              << Request(self.url, self.headers,
                         send_payload_template_with_header_data(template_name, recipient_id,
                             header_variables, body_variables,
                             Default(lang, send_payload_template_with_header_lang))) >>,
              <<resp>>, <<>>, send_payload_template_with_header_return(resp))

(* send_templatev2 *)

\* Line 298 calls the bare name send_template, which is no global of the
\* module: the call raises NameError after the warning, before any POST.
send_templatev2(template, recipient_id, components, lang) ==
    /\ Ready
    /\ Finish([op |-> "send_templatev2", template |-> template,
               recipient_id |-> recipient_id, components |-> components, lang |-> lang],
              <<>>, <<>>, <<"DeprecationWarning">>, Raise("NameError"))

(* send_image *)

\* send_image_data with the flag read the other way round: the id form when
\* link is true, the link form when it is false.
send_image_data_flag_inverted(image, recipient_id, recipient_type, caption, link) ==
    [ messaging_product |-> "whatsapp",
      recipient_type    |-> recipient_type,
      to                |-> recipient_id,
      type              |-> "image",
      image             |-> IF link THEN [id |-> image, caption |-> caption]
                                    ELSE [link |-> image, caption |-> caption] ]

send_image_data(image, recipient_id, recipient_type, caption, link) ==
    IF link
    THEN [ messaging_product |-> "whatsapp",
           recipient_type    |-> recipient_type,
           to                |-> recipient_id,
           type              |-> "image",
           image             |-> [link |-> image, caption |-> caption] ]
    ELSE [ messaging_product |-> "whatsapp",
           recipient_type    |-> recipient_type,
           to                |-> recipient_id,
           type              |-> "image",
           image             |-> [id |-> image, caption |-> caption] ]

send_image(image, recipient_id, recipient_type, caption, link, resp) ==
    /\ Ready
    /\ Finish([op |-> "send_image", image |-> image, recipient_id |-> recipient_id,
               recipient_type |-> recipient_type, caption |-> caption, link |-> link],
              << Request(self.url, self.headers,
                         send_image_data(image, recipient_id, recipient_type,
                                         caption, link)) >>,
              <<resp>>, <<>>, return_json(resp))

(* mark_as_read *)

mark_as_read_headers ==
    [ Authorization |-> "Bearer " \o self.token,
      Content_Type  |-> "application/json" ]

\* The read-receipt endpoint on the Graph API version that v15_base_url is named after.
mark_as_read_url_v15 == "https://graph.facebook.com/v15.0" \o "/" \o self.phone_number_id \o "/messages"

mark_as_read_url == self.v15_base_url \o "/" \o self.phone_number_id \o "/messages"

mark_as_read_data(message_id) ==
    [ messaging_product |-> "whatsapp",
      status            |-> "read",
      message_id        |-> message_id ]

\* bool(d) of a dict.
TruthyDict(d) == DOMAIN d # {}

\* Lines 379-390: response is the parsed JSON (a dict).  A non-empty dict is
\* returned; on an empty one line 388 reads response.status_code, which a
\* dict does not have.
mark_as_read_return(resp) ==
    LET response == resp.json
    IN  IF TruthyDict(response) THEN Return(response) ELSE Raise("AttributeError")

mark_as_read(message_id, resp) ==
    /\ Ready
    /\ Finish([op |-> "mark_as_read", message_id |-> message_id],
              << Request(mark_as_read_url, mark_as_read_headers,
                         mark_as_read_data(message_id)) >>,
              <<resp>>, <<>>, mark_as_read_return(resp))

(* send_button and create_button *)

\* d.get(key)
Get(d, key) == IF key \in DOMAIN d THEN d[key] ELSE None

\* bool(v) of None or a str.
Truthy(v) == v # None /\ v # PyStr("")

create_button(button) ==
    [type |-> "list", action |-> Get(button, "action")]
      @@ (IF Truthy(Get(button, "header"))
          THEN [header |-> [type |-> "text", text |-> Get(button, "header")]]
          ELSE EmptyJson)
      @@ (IF Truthy(Get(button, "body"))
          THEN [body |-> [text |-> Get(button, "body")]]
          ELSE EmptyJson)
      @@ (IF Truthy(Get(button, "footer"))
          THEN [footer |-> [text |-> Get(button, "footer")]]
          ELSE EmptyJson)

send_button_data(button, recipient_id) ==
    [ messaging_product |-> "whatsapp",
      to                |-> recipient_id,
      type              |-> "interactive",
      interactive       |-> create_button(button) ]

send_button(button, recipient_id, resp) ==
    /\ Ready
    /\ Finish([op |-> "send_button", button |-> button, recipient_id |-> recipient_id],
              << Request(self.url, self.headers, send_button_data(button, recipient_id)) >>,
              <<resp>>, <<>>, return_json(resp))

(* send_interactive_buttons *)

send_interactive_buttons_data(recipient_id, username) ==
    [ messaging_product |-> "whatsapp",
      to                |-> recipient_id,
      type              |-> "interactive",
      interactive       |->
          [ type   |-> "button",
            body   |-> [text |-> "Hello *" \o username
                                   \o "*! Please choose an option below to proceed:"],
            action |-> [buttons |->
                << [type |-> "reply",
                    reply |-> [id |-> "pay_dstv", title |-> "Pay for DSTV"]],
                   [type |-> "reply",
                    reply |-> [id |-> "contact_admin", title |-> "Contact Admin"]] >>] ] ]

send_interactive_buttons(recipient_id, username, resp) ==
    /\ Ready
    /\ Finish([op |-> "send_interactive_buttons", recipient_id |-> recipient_id,
               username |-> username],
              << Request(self.url, self.headers,
                         send_interactive_buttons_data(recipient_id, username)) >>,
              <<resp>>, <<>>, return_json(resp))

(* send_reply_button *)

send_reply_button_data(button, recipient_id) ==
    [ messaging_product |-> "whatsapp",
      recipient_type    |-> "individual",
      to                |-> recipient_id,
      type              |-> "interactive",
      interactive       |-> button ]

send_reply_button(button, recipient_id, resp) ==
    /\ Ready
    /\ Finish([op |-> "send_reply_button", button |-> button,
               recipient_id |-> recipient_id],
              << Request(self.url, self.headers,
                         send_reply_button_data(button, recipient_id)) >>,
              <<resp>>, <<>>, return_json(resp))

(* send_list_message *)

send_list_message_data(recipient_id, header, body, footer, buttons) ==
    LET sections ==
            << [ title |-> "Select one",
                 rows  |-> [n \in DOMAIN buttons |->
                               [id |-> buttons[n].payload, title |-> buttons[n].title]] ] >>
    IN  [ messaging_product |-> "whatsapp",
          to                |-> recipient_id,
          type              |-> "interactive",
          interactive       |->
              [ type   |-> "list",
                header |-> [type |-> "text", text |-> header],
                body   |-> [text |-> body],
                footer |-> [text |-> footer],
                action |-> [button |-> "Choose", sections |-> sections] ] ]

send_list_message(recipient_id, header, body, footer, buttons, resp) ==
    /\ Ready
    /\ Finish([op |-> "send_list_message", recipient_id |-> recipient_id,
               header |-> header, body |-> body, footer |-> footer, buttons |-> buttons],
              << Request(self.url, self.headers,
                         send_list_message_data(recipient_id, header, body, footer,
                                                buttons)) >>,
              <<resp>>, <<>>, return_json(resp))

(* send_cta_url_button *)

send_cta_url_button_data(recipient_id, button_text, url, message) ==
    LET body == IF Truthy(message) THEN [body |-> [text |-> message]] ELSE EmptyJson
    IN  [ messaging_product |-> "whatsapp",
          recipient_type    |-> "individual",
          to                |-> recipient_id,
          type              |-> "interactive",
          interactive       |->
              [type |-> "cta_url"]
                @@ body
                @@ [action |-> [ name       |-> "cta_url",
                                 parameters |-> [ display_text |-> button_text,
                                                  url          |-> url ] ]] ]

send_cta_url_button(recipient_id, button_text, url, message, resp) ==
    /\ Ready
    /\ Finish([op |-> "send_cta_url_button", recipient_id |-> recipient_id,
               button_text |-> button_text, url |-> url, message |-> message],
              << Request(self.url, self.headers,
                         send_cta_url_button_data(recipient_id, button_text, url,
                                                  message)) >>,
              <<resp>>, <<>>, return_json(resp))

(* send_document *)

send_document_data(document_url, recipient_id, caption, filename) ==
    [ messaging_product |-> "whatsapp",
      recipient_type    |-> "individual",
      to                |-> recipient_id,
      type              |-> "document",
      document          |-> [ link     |-> document_url,
                              caption  |-> caption,
                              filename |-> filename ] ]

send_document(document_url, recipient_id, caption, filename, resp) ==
    /\ Ready
    /\ Finish([op |-> "send_document", document_url |-> document_url,
               recipient_id |-> recipient_id, caption |-> caption, filename |-> filename],
              << Request(self.url, self.headers,
                         send_document_data(document_url, recipient_id, caption,
                                            filename)) >>,
              <<resp>>, <<>>, return_json(resp))

(* request_location *)

request_location_data(recipient_id, message) ==
    [ messaging_product |-> "whatsapp",
      recipient_type    |-> "individual",
      type              |-> "interactive",
      to                |-> recipient_id,
      interactive       |-> [ type   |-> "location_request_message",
                              body   |-> [text |-> message],
                              action |-> [name |-> "send_location"] ] ]

\* The length check with ">" for ">=".
request_location_invalid_gt(message) == Len(message) > LocationLimit

\* Line 647: the length check that precedes the POST.
request_location_invalid(message) == Len(message) >= LocationLimit

request_location(recipient_id, message, resp) ==
    LET c == [op |-> "request_location", recipient_id |-> recipient_id,
              message |-> message]
    IN  /\ Ready
        /\ IF request_location_invalid(message)
           THEN Finish(c, <<>>, <<>>, <<>>, Raise("ValueError"))
           ELSE Finish(c, << Request(self.url, self.headers,
                                     request_location_data(recipient_id, message)) >>,
                       <<resp>>, <<>>, return_json(resp))

-----------------------------------------------------------------------------
(* Webhook events *)

Contact ==
    [wa_id |-> PyStr("263771234567"), profile |-> [name |-> PyStr("Tarmica")]]

Metadata ==
    [ display_phone_number |-> PyStr("263780000000"),
      phone_number_id      |-> PyStr("106540352242922") ]

TextMessage ==
    [ from |-> PyStr("263771234567"), id |-> PyStr("wamid.T"),
      timestamp |-> PyStr("1700000000"), type |-> PyStr("text"),
      text |-> [body |-> PyStr("Hello")] ]

ButtonReplyMessage ==
    [ from |-> PyStr("263771234567"), id |-> PyStr("wamid.B"),
      timestamp |-> PyStr("1700000001"), type |-> PyStr("interactive"),
      interactive |-> [ type |-> PyStr("button_reply"),
                        button_reply |-> [ id    |-> PyStr("pay_dstv"),
                                           title |-> PyStr("Pay for DSTV") ] ] ]

ListReplyMessage ==
    [ from |-> PyStr("263771234567"), id |-> PyStr("wamid.L"),
      timestamp |-> PyStr("1700000002"), type |-> PyStr("interactive"),
      interactive |-> [ type |-> PyStr("list_reply"),
                        list_reply |-> [ id    |-> PyStr("1"),
                                         title |-> PyStr("Option 1") ] ] ]

ImageMessage ==
    [ from |-> PyStr("263771234567"), id |-> PyStr("wamid.I"),
      timestamp |-> PyStr("1700000003"), type |-> PyStr("image"),
      image |-> [ mime_type |-> PyStr("image/jpeg"), sha256 |-> PyStr("c2hh"),
                  id |-> PyStr("1013859600285441") ] ]

\* The change value of a message callback.
MessageValue(message) ==
    [ messaging_product |-> PyStr("whatsapp"), metadata |-> Metadata,
      contacts |-> <<Contact>>, messages |-> <<message>> ]

\* The change value of a status callback: no "contacts", no "messages".
StatusValue ==
    [ messaging_product |-> PyStr("whatsapp"), metadata |-> Metadata,
      statuses |-> << [ id |-> PyStr("wamid.A"), status |-> PyStr("delivered"),
                        timestamp |-> PyStr("1700000004"),
                        recipient_id |-> PyStr("263771234567") ] >> ]

WebhookEvent(value) ==
    [ object |-> PyStr("whatsapp_business_account"),
      entry  |-> << [ id      |-> PyStr("102290129340398"),
                      changes |-> << [value |-> value, field |-> PyStr("messages")] >> ] >> ]

WebhookEvents ==
    { WebhookEvent(MessageValue(m)) :
          m \in {TextMessage, ButtonReplyMessage, ListReplyMessage, ImageMessage} }
      \cup {WebhookEvent(StatusValue), WebhookEvent(EmptyJson)}

-----------------------------------------------------------------------------
(* Webhook accessors *)

\* d[key] of a dict and l[idx] of a list, which raise when the key or the
\* index is missing: a path of such steps ends with a value or an exception.
Key(key) == [key |-> key]

Idx(idx) == [idx |-> idx]

Found(v) == [ok |-> TRUE, v |-> v]

Missing(exc) == [ok |-> FALSE, exc |-> exc]

RECURSIVE Subscript(_, _)
Subscript(v, path) ==
    IF path = <<>> THEN Found(v)
    ELSE LET step == Head(path)
         IN  IF "key" \in DOMAIN step
             THEN IF step.key \in DOMAIN v
                  THEN Subscript(v[step.key], Tail(path))
                  ELSE Missing("KeyError")
             ELSE IF step.idx + 1 \in DOMAIN v
                  THEN Subscript(v[step.idx + 1], Tail(path))
                  ELSE Missing("IndexError")

\* "return <path>": the value, or the exception the subscripting raised.
ReturnPath(v, path) ==
    LET got == Subscript(v, path)
    IN  IF got.ok THEN Return(got.v) ELSE Raise(got.exc)

\* data["entry"][0]["changes"][0]["value"]; the path is taken to exist.
preprocess(data) == data.entry[1].changes[1].value

is_message_outcome(data) ==
    LET d == preprocess(data)
    IN  IF "messages" \in DOMAIN d THEN Return(PyBool(TRUE)) ELSE Return(PyBool(FALSE))

get_mobile_outcome(data) ==
    LET d == preprocess(data)
    IN  IF "contacts" \in DOMAIN d
        THEN ReturnPath(d, <<Key("contacts"), Idx(0), Key("wa_id")>>)
        ELSE Return(None)

get_name_outcome(data) ==
    LET contact == preprocess(data)
    IN  IF TruthyDict(contact)
        THEN ReturnPath(contact, <<Key("contacts"), Idx(0), Key("profile"), Key("name")>>)
        ELSE Return(None)

\* get_message answering a list reply with the title of the chosen row.
get_message_outcome_list_title(data) ==
    LET d == preprocess(data)
    IN  IF "messages" \in DOMAIN d
        THEN LET md == d.messages[1]
             IN  IF md.type = PyStr("text") THEN Return(md.text.body)
                 ELSE IF md.type = PyStr("interactive")
                      THEN IF "button_reply" \in DOMAIN md.interactive
                           THEN Return(md.interactive.button_reply.title)
                           ELSE Return(md.interactive.list_reply.title)
                 ELSE Return(None)
        ELSE Return(None)

get_message_outcome(data) ==
    LET d == preprocess(data)
    IN  IF "messages" \in DOMAIN d
        THEN LET md == Subscript(d, <<Key("messages"), Idx(0)>>)
                 ty == Subscript(d, <<Key("messages"), Idx(0), Key("type")>>)
             IN  IF ~md.ok THEN Raise(md.exc)
                 ELSE IF ~ty.ok THEN Raise(ty.exc)
                 ELSE IF ty.v = PyStr("text")
                      THEN ReturnPath(md.v, <<Key("text"), Key("body")>>)
                 ELSE IF ty.v = PyStr("interactive")
                      THEN LET ia == Subscript(md.v, <<Key("interactive")>>)
                           IN  IF ~ia.ok THEN Raise(ia.exc)
                               ELSE IF "button_reply" \in DOMAIN ia.v
                                    THEN ReturnPath(ia.v, <<Key("button_reply"),
                                                            Key("title")>>)
                                    ELSE Return(None)
                 ELSE Return(None)
        ELSE Return(None)

get_message_id_outcome(data) ==
    LET d == preprocess(data)
    IN  IF "messages" \in DOMAIN d
        THEN ReturnPath(d, <<Key("messages"), Idx(0), Key("id")>>)
        ELSE Return(None)

get_conversation_id_outcome(data) ==
    LET d == preprocess(data)
    IN  IF "conversation_id" \in DOMAIN d
        THEN Return(Get(d, "conversation_id"))
        ELSE Return(None)

get_message_timestamp_outcome(data) ==
    LET d == preprocess(data)
    IN  IF "messages" \in DOMAIN d
        THEN ReturnPath(d, <<Key("messages"), Idx(0), Key("timestamp")>>)
        ELSE Return(None)

get_interactive_response_outcome(data) ==
    LET d == preprocess(data)
    IN  IF "messages" \in DOMAIN d
        THEN LET md == Subscript(d, <<Key("messages"), Idx(0)>>)
             IN  IF ~md.ok THEN Raise(md.exc)
                 ELSE IF "interactive" \in DOMAIN md.v
                      THEN ReturnPath(md.v, <<Key("interactive")>>)
                      ELSE Return(None)
        ELSE Return(None)

get_image_outcome(data) ==
    LET d == preprocess(data)
    IN  IF "messages" \in DOMAIN d
        THEN LET md == Subscript(d, <<Key("messages"), Idx(0)>>)
             IN  IF ~md.ok THEN Raise(md.exc)
                 ELSE IF "image" \in DOMAIN md.v
                      THEN ReturnPath(md.v, <<Key("image")>>)
                      ELSE Return(None)
        ELSE Return(None)

get_message_type_outcome(data) ==
    LET d == preprocess(data)
    IN  IF "messages" \in DOMAIN d
        THEN ReturnPath(d, <<Key("messages"), Idx(0), Key("type")>>)
        ELSE Return(None)

get_delivery_outcome(data) ==
    LET d == preprocess(data)
    IN  IF "statuses" \in DOMAIN d
        THEN ReturnPath(d, <<Key("statuses"), Idx(0), Key("status")>>)
        ELSE Return(None)

changed_field_outcome(data) == Return(data.entry[1].changes[1].field)

\* The event object after an accessor that pops "messages" off the change value.
event_after_messages_popped(data) ==
    LET value == preprocess(data)
        rest  == [key \in DOMAIN value \ {"messages"} |-> value[key]]
    IN  [data EXCEPT !.entry[1].changes[1].value = rest]

\* The event object after an accessor was given it: preprocess and the
\* accessors subscript the dict, test membership and rebind their local name
\* data; no statement stores into the dict or removes from it.
event_after(data) == data

\* The caller passes the accessor either an event it has just received, or the
\* event object it still holds from the accessor call that has just ended.
Given(data) == Ready \/ (pc = "done" /\ data = event)

\* The events the caller can pass now.
Held == IF pc = "done" /\ event # None THEN {event} ELSE WebhookEvents

\* The accessor calls: each reads the event and ends with its outcome.  The
\* history variable either remembers this call (the event as given, the
\* outcome, the client's attributes) or keeps the call it remembers and notes
\* whether another accessor than the remembered one has been called since.
Accessor(name, data, outcome) ==
    /\ call' = [op |-> name, data |-> data]
    /\ result' = outcome
    /\ event' = event_after(data)
    /\ observed' \in
          { [ op |-> name, data |-> data, result |-> outcome, self |-> self,
              interleaved |-> FALSE ],
            IF observed = None THEN None
            ELSE [observed EXCEPT !.interleaved = @ \/ name # observed.op] }
    /\ pc' = "done"
    /\ posts' = <<>>
    /\ responses' = <<>>
    /\ r' = NoResponse
    /\ warned' = <<>>
    /\ messages' = <<>>
    /\ k' = 0
    /\ UNCHANGED self

is_message(data) ==
    /\ Given(data)
    /\ Accessor("is_message", data, is_message_outcome(data))

get_mobile(data) ==
    /\ Given(data)
    /\ Accessor("get_mobile", data, get_mobile_outcome(data))

get_name(data) ==
    /\ Given(data)
    /\ Accessor("get_name", data, get_name_outcome(data))

get_message(data) ==
    /\ Given(data)
    /\ Accessor("get_message", data, get_message_outcome(data))

get_message_id(data) ==
    /\ Given(data)
    /\ Accessor("get_message_id", data, get_message_id_outcome(data))

get_conversation_id(data) ==
    /\ Given(data)
    /\ Accessor("get_conversation_id", data, get_conversation_id_outcome(data))

get_message_timestamp(data) ==
    /\ Given(data)
    /\ Accessor("get_message_timestamp", data, get_message_timestamp_outcome(data))

get_interactive_response(data) ==
    /\ Given(data)
    /\ Accessor("get_interactive_response", data, get_interactive_response_outcome(data))

get_image(data) ==
    /\ Given(data)
    /\ Accessor("get_image", data, get_image_outcome(data))

get_message_type(data) ==
    /\ Given(data)
    /\ Accessor("get_message_type", data, get_message_type_outcome(data))

get_delivery(data) ==
    /\ Given(data)
    /\ Accessor("get_delivery", data, get_delivery_outcome(data))

changed_field(data) ==
    /\ Given(data)
    /\ Accessor("changed_field", data, changed_field_outcome(data))

-----------------------------------------------------------------------------
(* Inputs of the operations *)

Emojis == {"\\U0001F44D"}

TemplateNames == {"hello_world"}

Langs == {Omitted, "en_US", "pt_BR"}

ComponentLists ==
    { <<>>,
      << [type |-> "body", parameters |-> << [type |-> "text", text |-> "Ann"] >>] >> }

Variables == {PyStr("Ann"), PyInt(42)}

VariableLists == UNION { [1..n -> Variables] : n \in 0..MaxVars }

Images == {"https://i.imgur.com/Fh7XVYY.jpeg", "1013859600285441"}

Captions == {None, PyStr("caption")}

ButtonDicts ==
    { [ header |-> PyStr("Choose a package:"), body |-> PyStr("Select from below:"),
        footer |-> PyStr("Footer text"),
        action |-> [button |-> "Packages", sections |-> <<>>] ],
      [ body   |-> PyStr("Select from below:"), footer |-> PyStr(""),
        action |-> [button |-> "Packages", sections |-> <<>>] ],
      [ header |-> PyStr("Choose a package:") ] }

ReplyButtonDicts ==
    { [ type   |-> "button", body |-> [text |-> "Proceed?"],
        action |-> [buttons |-> << [type |-> "reply",
                                    reply |-> [id |-> "yes", title |-> "Yes"]] >>] ] }

ListButtons == {[title |-> "Option 1", payload |-> "1"], [title |-> "Option 2", payload |-> "2"]}

ListButtonLists == UNION { [1..n -> ListButtons] : n \in 0..MaxVars }

CtaMessages == {None, PyStr(""), PyStr("Visit our website")}

LocationLengths == {0, LocationLimit - 2, LocationLimit - 1, LocationLimit, LocationLimit + 1}

LocationMessages == {Text(n, s) : n \in LocationLengths, s \in Seeds}

-----------------------------------------------------------------------------

Next ==
    \/ \E message \in Bodies, recipient_id \in RecipientIds,
          recipient_type \in {"individual", "group"}, preview_url \in BOOLEAN :
          send_message(message, recipient_id, recipient_type, preview_url)
    \/ send_message_resume
    \/ \E message_id \in MessageIds, recipient_id \in RecipientIds,
          message \in Bodies, preview_url \in BOOLEAN :
          reply_to_message(message_id, recipient_id, message, preview_url)
    \/ reply_to_message_resume
    \/ \E resp \in Responses : requests_post_returns(resp)
    \/ caller_continues
    \/ \E message_id \in MessageIds, reaction \in Emojis, recipient_id \in RecipientIds,
          resp \in Responses :
          send_reaction(message_id, reaction, recipient_id, resp)
    \/ \E template \in TemplateNames, recipient_id \in RecipientIds,
          components \in ComponentLists, lang \in Langs, resp \in Responses :
          send_template(template, recipient_id, components, lang, resp)
    \/ \E template_name \in TemplateNames, recipient_id \in RecipientIds,
          variables \in VariableLists, lang \in Langs, resp \in Responses :
          send_payload_template(template_name, recipient_id, variables, lang, resp)
    \/ \E template_name \in TemplateNames, recipient_id \in RecipientIds,
          header_variables \in VariableLists, body_variables \in VariableLists,
          lang \in Langs, resp \in Responses :
          send_payload_template_with_header(template_name, recipient_id,
              header_variables, body_variables, lang, resp)
    \/ \E template \in TemplateNames, recipient_id \in RecipientIds,
          components \in ComponentLists, lang \in Langs :
          send_templatev2(template, recipient_id, components, lang)
    \/ \E image \in Images, recipient_id \in RecipientIds,
          recipient_type \in {"individual"}, caption \in Captions, link \in BOOLEAN,
          resp \in Responses :
          send_image(image, recipient_id, recipient_type, caption, link, resp)
    \/ \E message_id \in MessageIds, resp \in Responses : mark_as_read(message_id, resp)
    \/ \E button \in ButtonDicts, recipient_id \in RecipientIds, resp \in Responses :
          send_button(button, recipient_id, resp)
    \/ \E recipient_id \in RecipientIds, username \in {"Tarmica"}, resp \in Responses :
          send_interactive_buttons(recipient_id, username, resp)
    \/ \E button \in ReplyButtonDicts, recipient_id \in RecipientIds, resp \in Responses :
          send_reply_button(button, recipient_id, resp)
    \/ \E recipient_id \in RecipientIds, buttons \in ListButtonLists, resp \in Responses :
          send_list_message(recipient_id, "Choose a package:", "Select from below:",
                            "Footer text", buttons, resp)
    \/ \E recipient_id \in RecipientIds, message \in CtaMessages, resp \in Responses :
          send_cta_url_button(recipient_id, "Visit our website", "https://example.com",
                              message, resp)
    \/ \E recipient_id \in RecipientIds, caption \in {"", "Invoice"},
          filename \in {"", "invoice.pdf"}, resp \in Responses :
          send_document("https://example.com/invoice.pdf", recipient_id, caption,
                        filename, resp)
    \/ \E recipient_id \in RecipientIds, message \in LocationMessages, resp \in Responses :
          request_location(recipient_id, message, resp)
    \/ \E data \in Held : is_message(data)
    \/ \E data \in Held : get_mobile(data)
    \/ \E data \in Held : get_name(data)
    \/ \E data \in Held : get_message(data)
    \/ \E data \in Held : get_message_id(data)
    \/ \E data \in Held : get_conversation_id(data)
    \/ \E data \in Held : get_message_timestamp(data)
    \/ \E data \in Held : get_interactive_response(data)
    \/ \E data \in Held : get_image(data)
    \/ \E data \in Held : get_message_type(data)
    \/ \E data \in Held : get_delivery(data)
    \/ \E data \in Held : changed_field(data)

Spec == Init /\ [][Next]_vars

-----------------------------------------------------------------------------
(* Properties *)

TextOps == {"send_message", "reply_to_message"}

SendOps ==
    TextOps \cup
    { "send_reaction", "send_template", "send_payload_template",
      "send_payload_template_with_header", "send_templatev2", "send_image",
      "mark_as_read", "send_button", "send_interactive_buttons", "send_reply_button",
      "send_list_message", "send_cta_url_button", "send_document", "request_location" }

\* The call has ended (returned or raised).
Done == pc = "done"

\* The text.body fields of the POSTs issued so far, in issue order.
PostedBodies == [n \in DOMAIN posts |-> posts[n].json.text.body]

\* C1: when send_message has ended on a body of more than 4096 characters, it
\* has issued ceil(length / 4096) POSTs, every text.body is at most 4096
\* characters long, and the bodies concatenated in issue order are the
\* original text.
C1_ChunkedRoundTrip ==
    (Done /\ call.op = "send_message" /\ Len(call.message) > 4096)
        => /\ Len(posts) = CeilDiv(Len(call.message), 4096)
           /\ \A n \in DOMAIN posts : Len(PostedBodies[n]) <= 4096
           /\ Concat(PostedBodies) = call.message

\* C1 witness: a send_message of 8193 characters has ended after three POSTs.
C1_Witness ==
    /\ Done
    /\ call.op = "send_message"
    /\ Len(call.message) = 2 * 4096 + 1
    /\ Len(posts) = 3

\* C2: when send_message has ended on a body of at most 4096 characters
\* (0 and 4096 included), it has issued exactly one POST, whose text.body is
\* the input text.
C2_SingleSend ==
    (Done /\ call.op = "send_message" /\ Len(call.message) <= 4096)
        => /\ Len(posts) = 1
           /\ posts[1].json.text.body = call.message

\* C2 witness: a send_message of exactly 4096 characters has ended.
C2_Witness ==
    /\ Done
    /\ call.op = "send_message"
    /\ Len(call.message) = 4096
    /\ Len(posts) = 1

\* The call in progress is a text send whose body is chunked.
ChunkedCall(c) == c.op \in TextOps /\ Len(c.message) > 4096

\* C3: in a chunked text send, every step that issues a POST finds all the
\* earlier POSTs of the call answered, issues the slice that follows the ones
\* already issued, and leaves exactly one POST in flight.
C3_SequentialInOrder ==
    [][ (ChunkedCall(call') /\ Len(posts') = Len(posts) + 1)
            => /\ IF posts = <<>> THEN responses' = <<>>
                  ELSE Len(responses) = Len(posts) /\ responses' = responses
               /\ posts'[Len(posts')].json.text.body
                     = Slice(call'.message, 4096 * Len(posts), 4096 * Len(posts) + 4096)
               /\ Len(posts') - Len(responses') = 1 ]_vars

\* C3 witness: the third chunk of a chunked reply is in flight, the first two
\* POSTs have returned.
C3_Witness ==
    /\ ChunkedCall(call)
    /\ call.op = "reply_to_message"
    /\ Len(posts) = 3
    /\ Len(responses) = 2

\* C4: when request_location has ended, a message of 1025 or more characters
\* has raised the validation error with no POST issued, and a message of at
\* most 1024 characters has raised nothing and issued exactly one POST.
C4_LocationValidation ==
    (Done /\ call.op = "request_location")
        => IF Len(call.message) >= 1025
           THEN result = Raise("ValueError") /\ posts = <<>>
           ELSE result.kind = "return" /\ Len(posts) = 1

\* C4 witness: request_location has ended on a message of 1025 characters.
C4_Witness ==
    /\ Done
    /\ call.op = "request_location"
    /\ Len(call.message) = 1025
    /\ result.kind = "raise"

\* The "type" of the payload of each kind of message.
KindType(op) ==
    CASE op \in TextOps -> "text"
      [] op = "send_reaction" -> "reaction"
      [] op \in {"send_template", "send_payload_template",
                 "send_payload_template_with_header", "send_templatev2"} -> "template"
      [] op = "send_image" -> "image"
      [] op = "send_document" -> "document"
      [] op \in {"send_button", "send_interactive_buttons", "send_reply_button",
                 "send_list_message", "send_cta_url_button", "request_location"}
            -> "interactive"

\* C5 (as claimed): every payload POSTed by any outbound operation, mark_as_read
\* included, has messaging_product "whatsapp", a "to" field and a "type" field,
\* the type being that of the message kind.
C5_EveryPayloadHasToAndType ==
    \A n \in DOMAIN posts :
        LET d == posts[n].json
        IN  /\ "messaging_product" \in DOMAIN d /\ d.messaging_product = "whatsapp"
            /\ "to" \in DOMAIN d
            /\ "type" \in DOMAIN d
            /\ call.op # "mark_as_read" => d.type = KindType(call.op)

\* C5 (amended): every payload POSTed has messaging_product "whatsapp"; the
\* payload of every operation other than mark_as_read has the recipient in "to"
\* and the type of its message kind in "type"; the payload of mark_as_read has
\* neither "to" nor "type": it holds status "read" and the message id.
C5_PayloadEnvelope ==
    \A n \in DOMAIN posts :
        LET d == posts[n].json
        IN  /\ "messaging_product" \in DOMAIN d /\ d.messaging_product = "whatsapp"
            /\ IF call.op = "mark_as_read"
               THEN /\ DOMAIN d = {"messaging_product", "status", "message_id"}
                    /\ d.status = "read"
                    /\ d.message_id = call.message_id
               ELSE /\ "to" \in DOMAIN d /\ d.to = call.recipient_id
                    /\ "type" \in DOMAIN d /\ d.type = KindType(call.op)

\* C5 witness: mark_as_read has ended after its POST.
C5_Witness ==
    /\ Done
    /\ call.op = "mark_as_read"
    /\ Len(posts) = 1

\* The accessors C6 names.
TotalAccessors ==
    { "is_message", "get_mobile", "get_name", "get_message", "get_message_id",
      "get_message_timestamp", "get_message_type", "get_interactive_response",
      "get_image", "get_delivery" }

\* C6: every accessor call on an event whose change value exists ends with a
\* return, never an exception, and returns None when the key it reads
\* ("contacts", "messages", "statuses") is missing from the change value.
C6_AccessorsTotal ==
    (Done /\ call.op \in TotalAccessors)
        => LET value == preprocess(call.data)
           IN  /\ result.kind = "return"
               /\ (call.op \in {"get_mobile", "get_name"}
                      /\ "contacts" \notin DOMAIN value) => result = Return(None)
               /\ (call.op \in {"get_message", "get_message_id", "get_message_timestamp",
                                "get_message_type", "get_interactive_response",
                                "get_image"}
                      /\ "messages" \notin DOMAIN value) => result = Return(None)
               /\ (call.op = "get_delivery"
                      /\ "statuses" \notin DOMAIN value) => result = Return(None)

\* C7: every send operation that has ended after a response whose status is
\* not 200 (whatever its JSON body, the empty object included) has returned a
\* value and raised nothing.
C7_Non200Returns ==
    (Done /\ call.op \in SendOps
          /\ \E n \in DOMAIN responses : responses[n].status_code # 200)
        => result.kind = "return"

\* C8: the value returned by a chunked text send is the parsed body of the
\* response to its last chunk's POST, whatever the earlier responses were.
C8_ReturnsLastChunkResponse ==
    (Done /\ ChunkedCall(call))
        => /\ Len(responses) = Len(posts)
           /\ Len(posts) = CeilDiv(Len(call.message), 4096)
           /\ result = Return(responses[Len(posts)].json)

\* C8 witness: a chunked send has ended whose first chunk was refused and whose
\* last chunk was accepted, and the accepted chunk's response body was returned.
C8_Witness ==
    /\ Done
    /\ ChunkedCall(call)
    /\ responses[1].status_code = 400
    /\ responses[Len(responses)].status_code = 200
    /\ result = Return(ProviderJson)

\* C9: reply_to_message issues one POST for a body of at most 4096 characters
\* and ceil(length / 4096) POSTs otherwise, the n-th POST carrying the n-th
\* slice of 4096 characters, and every payload it issues carries
\* context.message_id equal to the message_id argument.
C9_ReplyChunksCarryContext ==
    call.op = "reply_to_message"
        => /\ \A n \in DOMAIN posts :
                 /\ posts[n].json.context.message_id = call.message_id
                 /\ PostedBodies[n] = Slice(call.message, 4096 * (n - 1), 4096 * n)
           /\ Done => Len(posts) = IF Len(call.message) <= 4096 THEN 1
                                   ELSE CeilDiv(Len(call.message), 4096)

\* C9 witness: a chunked reply has ended after three POSTs.
C9_Witness ==
    /\ Done
    /\ call.op = "reply_to_message"
    /\ Len(call.message) > 2 * 4096
    /\ Len(posts) = 3

\* The number of text chunks of a body: one POST each.
TextPosts(message) ==
    IF Len(message) <= 4096 THEN 1 ELSE CeilDiv(Len(message), 4096)

\* C10: every send call that has ended has issued exactly one POST per text
\* chunk (text sends) or exactly one POST (every other kind), whatever the
\* response statuses were.  (A request_location call that its own validation
\* rejected, the case of C4, is left aside: it is meant to issue none.)
C10_OnePostPerChunk ==
    (Done /\ call.op \in SendOps /\ result # Raise("ValueError"))
        => Len(posts) = IF call.op \in TextOps THEN TextPosts(call.message) ELSE 1

\* What the code does about retries: a call that reached the transport has
\* issued one POST per text chunk, the n-th POST carrying the n-th chunk, or
\* one POST, each answered once; the calls that raise before their first POST
\* (request_location's rejection, send_templatev2) have issued none.
NoRetry ==
    (Done /\ call.op \in SendOps)
        => /\ Len(posts) = IF \/ call.op = "send_templatev2"
                              \/ call.op = "request_location" /\ Len(call.message) >= 1025
                           THEN 0
                           ELSE IF call.op \in TextOps THEN TextPosts(call.message)
                           ELSE 1
           /\ Len(responses) = Len(posts)
           /\ call.op \in TextOps
                 => \A n \in DOMAIN posts :
                        PostedBodies[n] = Slice(call.message, 4096 * (n - 1), 4096 * n)


\* The change value of the event an accessor call was given.
CallValue == call.data.entry[1].changes[1].value

\* C11: get_message returns the text body of a "text" message, the title of
\* the button of an "interactive" message that holds a button_reply, and None
\* for every other message (an image, a list reply) and for every event
\* without a "messages" key.
C11_GetMessage ==
    (Done /\ call.op = "get_message")
        => result =
              IF "messages" \notin DOMAIN CallValue THEN Return(None)
              ELSE LET message == CallValue.messages[1]
                   IN  IF message.type = PyStr("text")
                       THEN Return(message.text.body)
                       ELSE IF /\ message.type = PyStr("interactive")
                               /\ "button_reply" \in DOMAIN message.interactive
                            THEN Return(message.interactive.button_reply.title)
                            ELSE Return(None)

\* C11 witness: get_message has answered a button reply with the button's title.
C11_Witness ==
    /\ Done
    /\ call.op = "get_message"
    /\ call.data = WebhookEvent(MessageValue(ButtonReplyMessage))
    /\ result = Return(PyStr("Pay for DSTV"))

\* The text a template variable of the model is sent as: str("Ann"), str(42).
ExpectedText(variable) ==
    CASE variable = PyStr("Ann") -> "Ann"
      [] variable = PyInt(42)    -> "42"

\* The parameters list that C12 describes for a list of variables.
ExpectedParameters(variables) ==
    [i \in 1..Len(variables) |-> [type |-> "text", text |-> ExpectedText(variables[i])]]

\* C12: the payload of send_payload_template_with_header has a components
\* list of exactly two entries, the header component first and the body
\* component second; with N header variables and M body variables their
\* parameters lists have lengths N and M, the i-th element being
\* {type: "text", text: str(variable_i)}, in the order of the inputs.
C12_HeaderThenBody ==
    (Done /\ call.op = "send_payload_template_with_header")
        => /\ Len(posts) = 1
           /\ LET components == posts[1].json.template.components
              IN  /\ Len(components) = 2
                  /\ DOMAIN components[1] = {"type", "parameters"}
                  /\ DOMAIN components[2] = {"type", "parameters"}
                  /\ components[1].type = "header"
                  /\ components[2].type = "body"
                  /\ Len(components[1].parameters) = Len(call.header_variables)
                  /\ Len(components[2].parameters) = Len(call.body_variables)
                  /\ components[1].parameters = ExpectedParameters(call.header_variables)
                  /\ components[2].parameters = ExpectedParameters(call.body_variables)

\* C12 witness: a template was sent with the header variables "Ann", 42 and
\* the body variable 42.
C12_Witness ==
    /\ Done
    /\ call.op = "send_payload_template_with_header"
    /\ call.header_variables = <<PyStr("Ann"), PyInt(42)>>
    /\ call.body_variables = <<PyInt(42)>>
    /\ Len(posts) = 1
    /\ posts[1].json.template.components[1].parameters[2].text = "42"

\* The template send paths that C13 names.
TemplateOps == {"send_template", "send_payload_template", "send_payload_template_with_header"}

\* C13: when the caller supplies no language code, the payload of every
\* template send path carries template.language.code = "en_US".
C13_DefaultLanguage ==
    (Done /\ call.op \in TemplateOps /\ call.lang = Omitted)
        => /\ Len(posts) = 1
           /\ posts[1].json.template.language.code = "en_US"

\* C14: every send operation that has ended after the transport answered has
\* returned the parsed JSON body of the (last) response, for a 200 response
\* and for any other status alike; none has returned another kind of value
\* (the response object) and none has raised.
C14_ReturnsParsedJson ==
    (Done /\ call.op \in SendOps /\ responses # <<>>)
        => result = Return(responses[Len(responses)].json)

\* C15: no step of any operation, send or accessor, ended well or not,
\* changes the client's configuration (token, phone_number_id, base URL,
\* endpoint URL, headers), which therefore stays as __init__ set it; and every
\* POST issued goes to {base_url}/{phone_number_id}/messages with exactly the
\* headers Content-Type: application/json and Authorization: Bearer {token}.
C15_ConfigurationFrozen ==
    [][ /\ self' = self
        /\ \A n \in DOMAIN posts' :
              /\ posts'[n].url = self.base_url \o "/" \o self.phone_number_id \o "/messages"
              /\ posts'[n].headers = [ Content_Type  |-> "application/json",
                                       Authorization |-> "Bearer " \o self.token ] ]_vars

\* C15 witness: a read receipt, which builds its own URL and headers, has been
\* POSTed to the messages endpoint with the client's bearer token.
C15_Witness ==
    /\ Done
    /\ call.op = "mark_as_read"
    /\ Len(posts) = 1
    /\ posts[1].url = "https://graph.facebook.com/v18.0/106540352242922/messages"
    /\ posts[1].headers.Authorization = "Bearer EAAG-token-2"
    /\ self = WhatsApp_init("EAAG-token-2", "106540352242922")

AccessorOps ==
    { "is_message", "get_mobile", "get_name", "get_message", "get_message_id",
      "get_conversation_id", "get_message_timestamp", "get_interactive_response",
      "get_image", "get_message_type", "get_delivery", "changed_field" }

C19_V2EquivalentToSendTemplate ==
    (Done /\ call.op = "send_templatev2")
        => /\ warned = <<"DeprecationWarning">>
           /\ Len(posts) = 1
           /\ posts[1] = Request(self.url, self.headers,
                             [ messaging_product |-> "whatsapp",
                               to                |-> call.recipient_id,
                               type              |-> "template",
                               template          |->
                                   [ name       |-> call.template,
                                     language   |-> [code |-> Default(call.lang, "en_US")],
                                     components |-> call.components ] ])
           /\ Len(responses) = 1
           /\ result = Return(responses[1].json)

=============================================================================
